---- MODULE Spec2Model ----
(***************************************************************************)
(* RoboTiles: the Board (board.py), its loader (tokenizer.py), the         *)
(* movement types (movement.py), the two screens that show a Board         *)
(* (testcode.py, editboard.py) with their Grid (grid.py), and the example  *)
(* robot program (path.py), as a state machine.                            *)
(*                                                                         *)
(* Coordinates are Python's: (x, y) with (0, 0) the top-left cell and the  *)
(* matrix row-major, board[y][x].  A Python list or tuple is a TLA+        *)
(* sequence, so the Python element l[i] is the TLA+ element l[i + 1].      *)
(* A source text is the sequence of lexemes the tokenizer's regular        *)
(* expression cuts it into: alphanumeric runs, "\n", blanks and single     *)
(* other characters.                                                       *)
(***************************************************************************)
EXTENDS Integers, Sequences, FiniteSets, TLC

VARIABLES size, board, start, end, robot_position, op, arg, ret, err, pre,
          screen, grid, path, cells

vars == <<size, board, start, end, robot_position, op, arg, ret, err, pre,
          screen, grid, path, cells>>

(***************************************************************************)
(* Bounds of the model.                                                    *)
(***************************************************************************)
\* Largest board side that is explored.
MaxSize == 2
\* Largest number of obstacle cells on an explored board of side n: any number
\* on a board of side 2, one on a larger board.
ObstacleCap(n) == IF n <= 2 THEN n * n ELSE 1

(***************************************************************************)
(* Python values.                                                          *)
(***************************************************************************)
\* None, where the code holds either None or a tuple.
None == <<>>

\* Truthy, were the tuple (0, 0) taken for false as the number 0 is.
TruthyNonZero(v) == Len(v) > 0 /\ v # <<0, 0>>

\* Truth value of `start` / `end` in `if start and end`: None is false, a
\* tuple of two elements is true whatever it holds.
Truthy(v) == Len(v) > 0

\* l[i] is defined for -len(l) <= i < len(l); a negative i counts from the end.
IndexOK(l, i) == (-Len(l) <= i) /\ (i < Len(l))
PyPos(l, i) == IF i < 0 THEN i + Len(l) ELSE i
Item(l, i) == l[PyPos(l, i) + 1]
SetItem(l, i, v) == [l EXCEPT ![PyPos(l, i) + 1] = v]

NoErr == [type |-> "none", msg |-> <<>>]
Raise(type, msg) == [type |-> type, msg |-> msg]

(***************************************************************************)
(* movement.py                                                             *)
(***************************************************************************)
Move == {"FORWARD", "RIGHT", "BACKWARD", "LEFT"}

RoboEnv(front, right, back, left) ==
    [front |-> front, right |-> right, back |-> back, left |-> left]

(***************************************************************************)
(* tokenizer.py                                                            *)
(***************************************************************************)
\* A file that does not exist.
NoFile == <<"<no file>">>

Token(value, line) == [value |-> value, line |-> line]

\* Upper, were the text read as it is written.
UpperIdentity(lexeme) == lexeme

\* str.upper() on a lexeme.
Upper(lexeme) ==
    CASE lexeme = "start" -> "START"
      [] lexeme = "Start" -> "START"
      [] lexeme = "end"   -> "END"
      [] lexeme = "End"   -> "END"
      [] lexeme = "x"     -> "X"
      [] OTHER            -> lexeme

\* The runs the group ALPHANUMERIC, [A-Z0-9]+, matches.
UpperAlnum == {"0", "1", "2", "START", "END", "X", "START0"}

\* match.lastgroup
Kind(lexeme) ==
    CASE lexeme = "\n"              -> "NEWLINE"
      [] lexeme \in {" ", "\t"}     -> "WHITESPACE"
      [] lexeme \in UpperAlnum      -> "ALPHANUMERIC"
      [] OTHER                      -> "MISMATCH"

RECURSIVE TokenLoop(_, _, _, _, _)
\* The loop over re.finditer: i is the next lexeme, line_num and tokens the
\* loop's variables.
TokenLoop(code, keywords, i, line_num, tokens) ==
    IF i > Len(code)
    THEN [err |-> NoErr, tokens |-> tokens]
    ELSE LET value == code[i]
             kind == Kind(value)
         IN  CASE kind = "NEWLINE" ->
                      TokenLoop(code, keywords, i + 1, line_num + 1, tokens)
               [] kind = "WHITESPACE" ->
                      TokenLoop(code, keywords, i + 1, line_num, tokens)
               [] kind = "MISMATCH" ->
                      [err |-> Raise("RuntimeError", <<ToString(line_num)>>),
                       tokens |-> <<>>]
               [] OTHER ->
                      IF value \notin keywords
                      THEN [err |-> Raise("RuntimeError", <<ToString(line_num)>>),
                            tokens |-> <<>>]
                      ELSE TokenLoop(code, keywords, i + 1, line_num,
                                     Append(tokens, Token(value, line_num)))

tokenize(file, keywords, match_case) ==
    IF file = NoFile
    THEN [err |-> Raise("FileNotFoundError", <<"Could not tokenize given file.">>),
          tokens |-> <<>>]
    ELSE LET code == IF match_case THEN file
                     ELSE [i \in 1..Len(file) |-> Upper(file[i])]
         IN  TokenLoop(code, keywords, 1, 1, <<>>)

(***************************************************************************)
(* tokenizer.py, character by character.  A text is the sequence of the    *)
(* characters code_file.read() returns, each a string of length one; the   *)
(* texts explored are written with the characters of Chars.                *)
(***************************************************************************)
Chars == {"A", "a", "0", " ", "\t", "\n", "#"}

\* str.upper() on one character.
UpperChar(c) == IF c = "a" THEN "A" ELSE c

\* The characters of Chars that [A-Z0-9] matches.
ALPHANUMERIC == {"A", "0"}

\* The characters [ \t] matches.
WHITESPACE == {" ", "\t"}

RECURSIVE RunEnd(_, _, _)
\* Where a greedy match of class+ that starts at i ends: the first position
\* from i on that holds no character of the class.
RunEnd(code, i, class) ==
    IF i <= Len(code) /\ code[i] \in class
    THEN RunEnd(code, i + 1, class)
    ELSE i

RECURSIVE Join(_)
\* The string made of the characters: match.group(kind).
Join(chars) == IF chars = <<>> THEN "" ELSE Head(chars) \o Join(Tail(chars))

RECURSIVE MatchLoop(_, _, _, _, _)
\* The loop over re.finditer(regex, code): the next match starts at i, the
\* first alternative that matches there wins; line_num and tokens are the
\* loop's variables.
MatchLoop(code, keywords, i, line_num, tokens) ==
    IF i > Len(code)
    THEN [err |-> NoErr, tokens |-> tokens]
    ELSE IF code[i] \in ALPHANUMERIC
    THEN LET j == RunEnd(code, i, ALPHANUMERIC)
             value == Join(SubSeq(code, i, j - 1))
         IN  IF value \notin keywords
             THEN [err |-> Raise("RuntimeError", <<line_num>>), tokens |-> <<>>]
             ELSE MatchLoop(code, keywords, j, line_num,
                            Append(tokens, Token(value, line_num)))
    ELSE IF code[i] = "\n"
    THEN MatchLoop(code, keywords, i + 1, line_num + 1, tokens)
    ELSE IF code[i] \in WHITESPACE
    THEN MatchLoop(code, keywords, RunEnd(code, i, WHITESPACE), line_num, tokens)
    ELSE [err |-> Raise("RuntimeError", <<line_num>>), tokens |-> <<>>]

\* tokenize on a file that exists and holds the text.
tokenize_text(text, keywords, match_case) ==
    LET code == IF match_case THEN text
                ELSE [i \in 1..Len(text) |-> UpperChar(text[i])]
    IN  MatchLoop(code, keywords, 1, 1, <<>>)

(***************************************************************************)
(* board.py: the Board object is the record self.                          *)
(***************************************************************************)
BoardKeywords == {"0", "1", "START", "END"}

\* TokenIndex, with the two indexes exchanged.
TokenIndexTransposed(n, x_index, y_index) == x_index * n + y_index

\* TokenIndex, were the cells counted back from the end of the token list.
TokenIndexFromEnd(n, x_index, y_index) == y_index * n + x_index - n * n

\* tokens[y_index * self.size + x_index]
TokenIndex(n, x_index, y_index) == y_index * n + x_index

\* The value appended to the row for a token.
CellValue(value) ==
    IF value = "START" THEN 0
    ELSE IF value = "END" THEN 0
    ELSE IF value = "0" THEN 0 ELSE 1

\* MissingToken, were the IndexError swallowed and the loops ended quietly.
MissingTokenIgnored(acc) == acc

\* except IndexError: the loops end with a RuntimeError.
MissingToken(acc) ==
    [acc EXCEPT !.err =
        Raise("RuntimeError", <<"Specified board size does not match file.">>)]

RECURSIVE FillCells(_, _, _, _)
\* The two nested loops of _fill_board_matrix, k = y_index * size + x_index
\* being the next position; acc holds start, end, row and matrix.
FillCells(n, tokens, k, acc) ==
    IF k >= n * n
    THEN acc
    ELSE LET y_index == k \div n
             x_index == k % n
             index == TokenIndex(n, x_index, y_index)
         IN  IF ~IndexOK(tokens, index)
             THEN MissingToken(acc)
             ELSE LET token == Item(tokens, index)
                      row == Append(acc.row, CellValue(token.value))
                      full == (x_index = n - 1)
                      next == [err |-> acc.err,
                               start |-> IF token.value = "START"
                                         THEN <<x_index, y_index>> ELSE acc.start,
                               end |-> IF token.value = "END"
                                       THEN <<x_index, y_index>> ELSE acc.end,
                               row |-> IF full THEN <<>> ELSE row,
                               matrix |-> IF full THEN Append(acc.matrix, row)
                                          ELSE acc.matrix]
                  IN  FillCells(n, tokens, k + 1, next)

\* fill_board_matrix, were a start or an end that no token gave taken to be
\* the first or the last cell.
fill_board_matrix_defaulting(n, tokens) ==
    LET done == FillCells(n, tokens, 0,
                          [err |-> NoErr, start |-> <<0, 0>>,
                           end |-> <<n - 1, n - 1>>,
                           row |-> <<>>, matrix |-> <<>>])
    IN  [err |-> done.err, start |-> done.start, end |-> done.end,
         matrix |-> done.matrix]

fill_board_matrix(n, tokens) ==
    LET done == FillCells(n, tokens, 0,
                          [err |-> NoErr, start |-> None, end |-> None,
                           row |-> <<>>, matrix |-> <<>>])
    IN  IF done.err # NoErr
        THEN [err |-> done.err, start |-> None, end |-> None, matrix |-> <<>>]
        ELSE IF Truthy(done.start) /\ Truthy(done.end)
        THEN [err |-> NoErr, start |-> done.start, end |-> done.end,
              matrix |-> done.matrix]
        ELSE [err |-> Raise("RuntimeError",
                  <<"'source_file' must specify both the start and end positions!">>),
              start |-> None, end |-> None, matrix |-> <<>>]

\* Each method is an operator from the object (and its arguments) to the
\* object after the call, the value returned and the exception raised.
Result(self, value, error) == [self |-> self, ret |-> value, err |-> error]

\* load_from_file, were the line of the illegal token left out of the message.
load_from_file_coarse(self, source_file) ==
    LET tok == tokenize(source_file, BoardKeywords, FALSE)
    IN  IF tok.err.type = "FileNotFoundError"
        THEN Result(self, None, Raise("FileNotFoundError",
                 <<"File supplied to Board is invalid or does not exist!">>))
        ELSE IF tok.err.type = "RuntimeError"
        THEN Result(self, None, Raise("RuntimeError",
                 <<"File supplied to board contains illegal token(s)", "!">>))
        ELSE LET fill == fill_board_matrix(self.size, tok.tokens)
             IN  IF fill.err # NoErr
                 THEN Result(self, None, Raise("RuntimeError",
                          <<"File supplied to board does not match dimensions specified",
                            "by size, or does not specify both a start and an end position.">>))
                 ELSE Result([self EXCEPT !.start = fill.start,
                                          !.end = fill.end,
                                          !.board = fill.matrix,
                                          !.robot_position = <<fill.start[1], fill.start[2]>>],
                             None, NoErr)

\* load_from_file, were the robot put back on the old start before the file
\* is read.
load_from_file_resetting(self, source_file) ==
    LET tok == tokenize(source_file, BoardKeywords, FALSE)
        reset == IF Truthy(self.start)
                 THEN [self EXCEPT !.robot_position = <<self.start[1], self.start[2]>>]
                 ELSE self
    IN  IF tok.err.type = "FileNotFoundError"
        THEN Result(reset, None, Raise("FileNotFoundError",
                 <<"File supplied to Board is invalid or does not exist!">>))
        ELSE IF tok.err.type = "RuntimeError"
        THEN Result(reset, None, Raise("RuntimeError",
                 <<"File supplied to board contains illegal token(s) at line ",
                   tok.err.msg[1], "!">>))
        ELSE LET fill == fill_board_matrix(self.size, tok.tokens)
             IN  IF fill.err # NoErr
                 THEN Result(reset, None, Raise("RuntimeError",
                          <<"File supplied to board does not match dimensions specified",
                            "by size, or does not specify both a start and an end position.">>))
                 ELSE Result([self EXCEPT !.start = fill.start,
                                          !.end = fill.end,
                                          !.board = fill.matrix,
                                          !.robot_position = <<fill.start[1], fill.start[2]>>],
                             None, NoErr)

\* load_from_file, were the robot of a Board that is reloaded left where it
\* stands.
load_from_file_robot_kept(self, source_file) ==
    LET tok == tokenize(source_file, BoardKeywords, FALSE)
    IN  IF tok.err.type = "FileNotFoundError"
        THEN Result(self, None, Raise("FileNotFoundError",
                 <<"File supplied to Board is invalid or does not exist!">>))
        ELSE IF tok.err.type = "RuntimeError"
        THEN Result(self, None, Raise("RuntimeError",
                 <<"File supplied to board contains illegal token(s) at line ",
                   tok.err.msg[1], "!">>))
        ELSE LET fill == fill_board_matrix(self.size, tok.tokens)
             IN  IF fill.err # NoErr
                 THEN Result(self, None, Raise("RuntimeError",
                          <<"File supplied to board does not match dimensions specified",
                            "by size, or does not specify both a start and an end position.">>))
                 ELSE Result([self EXCEPT !.start = fill.start,
                                          !.end = fill.end,
                                          !.board = fill.matrix,
                                          !.robot_position =
                                              IF Truthy(self.robot_position)
                                              THEN self.robot_position
                                              ELSE <<fill.start[1], fill.start[2]>>],
                             None, NoErr)

load_from_file(self, source_file) ==
    LET tok == tokenize(source_file, BoardKeywords, FALSE)
    IN  IF tok.err.type = "FileNotFoundError"
        THEN Result(self, None, Raise("FileNotFoundError",
                 <<"File supplied to Board is invalid or does not exist!">>))
        ELSE IF tok.err.type = "RuntimeError"
        THEN Result(self, None, Raise("RuntimeError",
                 <<"File supplied to board contains illegal token(s) at line ",
                   tok.err.msg[1], "!">>))
        ELSE LET fill == fill_board_matrix(self.size, tok.tokens)
             IN  IF fill.err # NoErr
                 THEN Result(self, None, Raise("RuntimeError",
                          <<"File supplied to board does not match dimensions specified",
                            "by size, or does not specify both a start and an end position.">>))
                 ELSE Result([self EXCEPT !.start = fill.start,
                                          !.end = fill.end,
                                          !.board = fill.matrix,
                                          !.robot_position = <<fill.start[1], fill.start[2]>>],
                             None, NoErr)

\* Board(size, source_file): the fields are unset until load_from_file sets them.
board_init(n, source_file) ==
    load_from_file([size |-> n, board |-> <<>>, start |-> None, end |-> None,
                    robot_position |-> None], source_file)

RECURSIVE SaveCells(_, _, _)
\* The loops of save_to_file over the n*n cells, k the next position.
SaveCells(self, k, save_data) ==
    LET n == Len(self.board)
    IN  IF k >= n * n
        THEN save_data
        ELSE LET y_index == k \div n
                 x_index == k % n
                 cell_value == self.board[y_index + 1][x_index + 1]
                 word == IF y_index = self.start[2] /\ x_index = self.start[1]
                         THEN "start"
                         ELSE IF y_index = self.end[2] /\ x_index = self.end[1]
                         THEN "end"
                         ELSE ToString(cell_value)
                 cell == <<word, " ">>
             IN  SaveCells(self, k + 1,
                           IF x_index = n - 1 THEN save_data \o cell \o <<"\n">>
                           ELSE save_data \o cell)

\* The text save_to_file writes.
save_data_of(self) == SaveCells(self, 0, <<>>)

\* save_to_file: nothing of the Board changes; the file, when it can be
\* opened, holds save_data afterwards.
save_to_file(self, writable) ==
    IF writable
    THEN Result(self, None, NoErr)
    ELSE Result(self, None,
                Raise("FileNotFoundError", <<"Could not save board to file.">>))

\* board_cells: the call returns a generator and executes nothing of the body.
\* rows is the list the generator iterates over: None until the body has
\* evaluated self.board, which the first next() makes it do, and None as well
\* while that list is still the one the Board holds; y_index and x_index are
\* the place of the item the next next() reads.
board_cells(self) ==
    [started |-> FALSE, finished |-> FALSE, rows |-> None,
     y_index |-> 0, x_index |-> 0]

StopIteration == Raise("StopIteration", <<>>)

\* next() on the generator g of board_cells: the body runs up to its next
\* yield, reading the cell from the list as it is now, or ends.
board_cells_next(self, g) ==
    LET rows == IF g.started /\ g.rows # None THEN g.rows ELSE self.board
        running == [g EXCEPT !.started = TRUE]
    IN  IF g.finished \/ g.y_index >= Len(rows)
        THEN [gen |-> [running EXCEPT !.finished = TRUE], ret |-> None,
              err |-> StopIteration]
        ELSE [gen |-> IF g.x_index + 1 < Len(rows[g.y_index + 1])
                      THEN [running EXCEPT !.x_index = g.x_index + 1]
                      ELSE [running EXCEPT !.x_index = 0, !.y_index = g.y_index + 1],
              ret |-> <<rows[g.y_index + 1][g.x_index + 1], g.x_index, g.y_index>>,
              err |-> NoErr]

\* self.board is bound to a new list by a load: a generator in the middle of
\* the old list keeps that list, old_board.
Rebound(g, old_board) ==
    IF g # None /\ g.started /\ ~g.finished /\ g.rows = None
    THEN [g EXCEPT !.rows = old_board]
    ELSE g

get_start(self) == self.start

get_end(self) == self.end

get_robot_position(self) == <<self.robot_position[1], self.robot_position[2]>>

\* get_robot_env, were an obstacle not looked at: a flag is true whenever the
\* neighbouring cell is in the grid.
get_robot_env_edges_only(self) ==
    LET x == self.robot_position[1]
        y == self.robot_position[2]
        front == y < self.size - 1
        right == x < self.size - 1
        back == y > 0
        left == x > 0
    IN  Result(self, RoboEnv(front, right, back, left), NoErr)

\* get_robot_env, with the rows of front and back exchanged.
get_robot_env_flipped(self) ==
    LET x == self.robot_position[1]
        y == self.robot_position[2]
        front == (y > 0) /\ (Item(Item(self.board, y - 1), x) = 0)
        right == (x < self.size - 1) /\ (Item(Item(self.board, y), x + 1) = 0)
        back == (y < self.size - 1) /\ (Item(Item(self.board, y + 1), x) = 0)
        left == (x > 0) /\ (Item(Item(self.board, y), x - 1) = 0)
    IN  Result(self, RoboEnv(front, right, back, left), NoErr)

get_robot_env(self) ==
    LET x == self.robot_position[1]
        y == self.robot_position[2]
        front == (y < self.size - 1) /\ (Item(Item(self.board, y + 1), x) = 0)
        right == (x < self.size - 1) /\ (Item(Item(self.board, y), x + 1) = 0)
        back == (y > 0) /\ (Item(Item(self.board, y - 1), x) = 0)
        left == (x > 0) /\ (Item(Item(self.board, y), x - 1) = 0)
    IN  Result(self, RoboEnv(front, right, back, left), NoErr)

\* move_vector, with the vectors of LEFT and RIGHT exchanged.
move_vector_mirrored(move) ==
    IF move = "FORWARD" THEN <<0, 1>>
    ELSE IF move = "LEFT" THEN <<1, 0>>
    ELSE IF move = "RIGHT" THEN <<-1, 0>>
    ELSE <<0, -1>>

move_vector(move) ==
    IF move = "FORWARD" THEN <<0, 1>>
    ELSE IF move = "LEFT" THEN <<-1, 0>>
    ELSE IF move = "RIGHT" THEN <<1, 0>>
    ELSE <<0, -1>>

\* limit_pos, without the two tests against 0.
limit_pos_no_floor(n, x_pos, y_pos) ==
    LET x == IF x_pos >= n THEN n - 1 ELSE x_pos
        y == IF y_pos >= n THEN n - 1 ELSE y_pos
    IN  <<x, y>>

limit_pos(n, x_pos, y_pos) ==
    LET x == IF x_pos < 0 THEN 0 ELSE IF x_pos >= n THEN n - 1 ELSE x_pos
        y == IF y_pos < 0 THEN 0 ELSE IF y_pos >= n THEN n - 1 ELSE y_pos
    IN  <<x, y>>

\* make_move, were the obstacle it runs into cleared instead of left alone.
make_move_clearing(self, move) ==
    LET vector == move_vector(move)
        limited == limit_pos(self.size,
                             self.robot_position[1] + vector[1],
                             self.robot_position[2] + vector[2])
        x_pos == limited[1]
        y_pos == limited[2]
        after == IF Item(Item(self.board, y_pos), x_pos) = 0
                 THEN [self EXCEPT !.robot_position = <<x_pos, y_pos>>]
                 ELSE [self EXCEPT !.board =
                          SetItem(self.board, y_pos,
                                  SetItem(Item(self.board, y_pos), x_pos, 0))]
    IN  Result(after, <<after.robot_position[1], after.robot_position[2]>>, NoErr)

make_move(self, move) ==
    LET vector == move_vector(move)
        limited == limit_pos(self.size,
                             self.robot_position[1] + vector[1],
                             self.robot_position[2] + vector[2])
        x_pos == limited[1]
        y_pos == limited[2]
    IN  IF ~IndexOK(self.board, y_pos) \/ ~IndexOK(Item(self.board, y_pos), x_pos)
        THEN Result(self, None, Raise("IndexError", <<"list index out of range">>))
        ELSE LET after == IF Item(Item(self.board, y_pos), x_pos) = 0
                          THEN [self EXCEPT !.robot_position = <<x_pos, y_pos>>]
                          ELSE self
             IN  Result(after, <<after.robot_position[1], after.robot_position[2]>>,
                        NoErr)

\* reset_robot, with start[0] copied into both coordinates.
reset_robot_x_twice(self) ==
    Result([self EXCEPT !.robot_position = <<self.start[1], self.start[1]>>],
           None, NoErr)

reset_robot(self) ==
    Result([self EXCEPT !.robot_position = <<self.start[1], self.start[2]>>],
           None, NoErr)

\* board[y_pos][x_pos] = value, were the whole row y_pos given the value.
StoreRow(self, x_pos, y_pos, value) ==
    IF ~IndexOK(self.board, y_pos)
    THEN Result(self, None, Raise("IndexError", <<"list index out of range">>))
    ELSE IF ~IndexOK(Item(self.board, y_pos), x_pos)
    THEN Result(self, None,
                Raise("IndexError", <<"list assignment index out of range">>))
    ELSE Result([self EXCEPT !.board =
                    SetItem(self.board, y_pos,
                            [k \in 1..Len(Item(self.board, y_pos)) |-> value])],
                None, NoErr)

\* board[y_pos][x_pos] = value: the row is read (list.__getitem__) and then
\* the cell is stored (list.__setitem__), each with its own IndexError.
StoreCell(self, x_pos, y_pos, value) ==
    IF ~IndexOK(self.board, y_pos)
    THEN Result(self, None, Raise("IndexError", <<"list index out of range">>))
    ELSE IF ~IndexOK(Item(self.board, y_pos), x_pos)
    THEN Result(self, None,
                Raise("IndexError", <<"list assignment index out of range">>))
    ELSE Result([self EXCEPT !.board =
                    SetItem(self.board, y_pos,
                            SetItem(Item(self.board, y_pos), x_pos, value))],
                None, NoErr)

\* set_obstacle, without the test against the end cell.
set_obstacle_start_only(self, x_pos, y_pos) ==
    LET start_check == (x_pos # self.start[1]) \/ (y_pos # self.start[2])
    IN  IF start_check
        THEN StoreCell(self, x_pos, y_pos, 1)
        ELSE Result(self, None,
                    Raise("RuntimeError", <<"Tries to set board obstacle at ", "start">>))

set_obstacle(self, x_pos, y_pos) ==
    LET start_check == (x_pos # self.start[1]) \/ (y_pos # self.start[2])
        end_check == (x_pos # self.end[1]) \/ (y_pos # self.end[2])
    IN  IF start_check /\ end_check
        THEN StoreCell(self, x_pos, y_pos, 1)
        ELSE IF ~start_check
        THEN Result(self, None,
                    Raise("RuntimeError", <<"Tries to set board obstacle at ", "start">>))
        ELSE Result(self, None,
                    Raise("RuntimeError", <<"Tries to set board obstacle at ", "end">>))

\* remove_obstacle, with the two names of the refusals exchanged.
remove_obstacle_names_exchanged(self, x_pos, y_pos) ==
    LET start_check == (x_pos # self.start[1]) \/ (y_pos # self.start[2])
        end_check == (x_pos # self.end[1]) \/ (y_pos # self.end[2])
    IN  IF start_check /\ end_check
        THEN StoreCell(self, x_pos, y_pos, 0)
        ELSE IF ~start_check
        THEN Result(self, None,
                    Raise("RuntimeError", <<"Tries to remove board obstacle at ", "end">>))
        ELSE Result(self, None,
                    Raise("RuntimeError", <<"Tries to remove board obstacle at ", "start">>))

remove_obstacle(self, x_pos, y_pos) ==
    LET start_check == (x_pos # self.start[1]) \/ (y_pos # self.start[2])
        end_check == (x_pos # self.end[1]) \/ (y_pos # self.end[2])
    IN  IF start_check /\ end_check
        THEN StoreCell(self, x_pos, y_pos, 0)
        ELSE IF ~start_check
        THEN Result(self, None,
                    Raise("RuntimeError", <<"Tries to remove board obstacle at ", "start">>))
        ELSE Result(self, None,
                    Raise("RuntimeError", <<"Tries to remove board obstacle at ", "end">>))

check_cell_for_obstacle(self, x_pos, y_pos) ==
    IF ~IndexOK(self.board, y_pos) \/ ~IndexOK(Item(self.board, y_pos), x_pos)
    THEN Result(self, None, Raise("IndexError", <<"list index out of range">>))
    ELSE Result(self, Item(Item(self.board, y_pos), x_pos) = 1, NoErr)

(***************************************************************************)
(* Source texts.                                                           *)
(***************************************************************************)
RECURSIVE Layout(_, _, _)
\* The words laid out as save_to_file lays cells out: each word followed by
\* a blank, a newline after every n-th word; k words are already laid out.
Layout(words, n, k) ==
    IF k >= Len(words)
    THEN <<>>
    ELSE <<words[k + 1], " ">>
         \o (IF (k + 1) % n = 0 THEN <<"\n">> ELSE <<>>)
         \o Layout(words, n, k + 1)

\* The words of a text: its lexemes that are neither blanks nor newlines.
WordsOf(text) == SelectSeq(text, LAMBDA l : Kind(l) \notin {"NEWLINE", "WHITESPACE"})

\* The n*n words of a board with start s, end e and the obstacles O.
CellWords(n, s, e, O) ==
    [k \in 1..(n * n) |->
        LET x == (k - 1) % n
            y == (k - 1) \div n
        IN  IF <<x, y>> = s THEN "START"
            ELSE IF <<x, y>> = e THEN "END"
            ELSE IF <<x, y>> \in O THEN "1" ELSE "0"]

Cells(n) == (0..(n - 1)) \X (0..(n - 1))

Obstacles(b) ==
    {c \in Cells(Len(b)) : b[c[2] + 1][c[1] + 1] = 1}

\* The files a Board of the state machine is constructed from.
InitSources(n) ==
    {Layout(CellWords(n, s, e, O), n, 0) :
        s \in Cells(n), e \in Cells(n),
        O \in {P \in SUBSET Cells(n) : Cardinality(P) <= ObstacleCap(n)}}

\* save_to_file's text with its k-th word replaced by w.
WithWord(saved, n, k, w) ==
    [saved EXCEPT ![((k - 1) \div n) * (2 * n + 1) + 2 * ((k - 1) % n) + 1] = w]

\* The place (1..n*n, row-major) of the cell c.
WordAt(n, c) == c[2] * n + c[1] + 1

\* A hand edit of a cell's word: an empty cell becomes an obstacle; an
\* obstacle, the start and the end become an empty cell.
Flip(w) == IF w = "0" THEN "1" ELSE "0"

\* The files a Board is reloaded from: the file save_to_file writes for it;
\* that file with one cell's word flipped, with start and end exchanged, with
\* an illegal first word ("#"), with an illegal last word ("2"), without its
\* last cell, with one more START after the last cell; and a file that does
\* not exist.
ReloadSources(self) ==
    LET saved == save_data_of(self)
        n == self.size
    IN  {saved, NoFile, SubSeq(saved, 1, Len(saved) - 3), saved \o <<"START">>,
         WithWord(saved, n, 1, "#"), WithWord(saved, n, n * n, "2"),
         WithWord(WithWord(saved, n, WordAt(n, self.start), "end"),
                  n, WordAt(n, self.end), "start")}
        \cup {WithWord(saved, n, k, Flip(WordsOf(saved)[k])) : k \in 1..(n * n)}

(***************************************************************************)
(* The state machine: a Board and the calls made on it.                    *)
(***************************************************************************)
\* A Board on its own: no screen shows it, no robot program is loaded and
\* no generator of board_cells is held.
NoScreen == screen = None /\ grid = None /\ path = None /\ cells = None

Self ==
    [size |-> size, board |-> board, start |-> start, end |-> end,
     robot_position |-> robot_position]

\* The call `name(argument)` ended with result r; before is what the call
\* found in robot_position, kept for make_move, reset_robot and a reload.
Returned(name, argument, r, before) ==
    /\ size' = r.self.size
    /\ board' = r.self.board
    /\ start' = r.self.start
    /\ end' = r.self.end
    /\ robot_position' = r.self.robot_position
    /\ op' = name
    /\ arg' = argument
    /\ ret' = r.ret
    /\ err' = r.err
    /\ pre' = before
    /\ UNCHANGED <<screen, grid, path>>

\* A call that leaves the generator held, if any, as it is.
Called(name, argument, r, before) ==
    /\ Returned(name, argument, r, before)
    /\ UNCHANGED cells

Constructed == Len(board) > 0

\* The boards explored: any number of obstacles on a board of side 2, at most
\* one on a larger board.
WithinCap(b) == Cardinality(Obstacles(b)) <= ObstacleCap(Len(b))

Init ==
    \E n \in 1..MaxSize :
        \E source \in InitSources(n) :
            \E r \in {board_init(n, source)} :
                /\ r.err = NoErr
                /\ size = r.self.size
                /\ board = r.self.board
                /\ start = r.self.start
                /\ end = r.self.end
                /\ robot_position = r.self.robot_position
                /\ op = "__init__"
                /\ arg = source
                /\ ret = None
                /\ err = NoErr
                /\ pre = None
                /\ NoScreen

MakeMove ==
    /\ Constructed
    /\ \E move \in Move :
          \E r \in {make_move(Self, move)} :
              Called("make_move", move, r, robot_position)

ResetRobot ==
    /\ Constructed
    /\ \E r \in {reset_robot(Self)} : Called("reset_robot", None, r, robot_position)

SetObstacle ==
    /\ Constructed
    /\ \E c \in Cells(size) :
          \E r \in {set_obstacle(Self, c[1], c[2])} :
              /\ WithinCap(r.self.board)
              /\ Called("set_obstacle", c, r, None)

RemoveObstacle ==
    /\ Constructed
    /\ \E c \in Cells(size) :
          \E r \in {remove_obstacle(Self, c[1], c[2])} :
              Called("remove_obstacle", c, r, None)

GetRobotEnv ==
    /\ Constructed
    /\ \E r \in {get_robot_env(Self)} : Called("get_robot_env", None, r, None)

LoadFromFile ==
    /\ Constructed
    /\ \E source \in ReloadSources(Self) :
          \E r \in {load_from_file(Self, source)} :
              /\ WithinCap(r.self.board)
              /\ Returned("load_from_file", source, r, robot_position)
              /\ cells' = IF r.err = NoErr THEN Rebound(cells, board) ELSE cells

\* save_to_file, on a file that can be opened or not; the argument recorded
\* is the text the file holds after the call.
SaveToFile ==
    /\ Constructed
    /\ \E writable \in BOOLEAN :
          \E r \in {save_to_file(Self, writable)} :
              Called("save_to_file",
                     IF writable THEN save_data_of(Self) ELSE NoFile, r, None)

Next ==
    \/ MakeMove
    \/ ResetRobot
    \/ SetObstacle
    \/ RemoveObstacle
    \/ GetRobotEnv
    \/ LoadFromFile
    \/ SaveToFile

Spec == Init /\ [][Next]_vars

(***************************************************************************)
(* The cell methods called with coordinates in and around the grid.        *)
(***************************************************************************)
\* The coordinates passed: those of the grid, the one before and the one past.
Coordinates(n) == (-1)..n

SetObstacleAt ==
    /\ Constructed
    /\ \E x_pos \in Coordinates(size), y_pos \in Coordinates(size) :
          \E r \in {set_obstacle(Self, x_pos, y_pos)} :
              /\ WithinCap(r.self.board)
              /\ Called("set_obstacle", <<x_pos, y_pos>>, r, None)

RemoveObstacleAt ==
    /\ Constructed
    /\ \E x_pos \in Coordinates(size), y_pos \in Coordinates(size) :
          \E r \in {remove_obstacle(Self, x_pos, y_pos)} :
              Called("remove_obstacle", <<x_pos, y_pos>>, r, None)

CheckCellForObstacleAt ==
    /\ Constructed
    /\ \E x_pos \in Coordinates(size), y_pos \in Coordinates(size) :
          \E r \in {check_cell_for_obstacle(Self, x_pos, y_pos)} :
              Called("check_cell_for_obstacle", <<x_pos, y_pos>>, r, None)

NextRange ==
    \/ SetObstacleAt
    \/ RemoveObstacleAt
    \/ CheckCellForObstacleAt

RangeSpec == Init /\ [][NextRange]_vars

(***************************************************************************)
(* Every method of a Board that is not a load or a save, called with any   *)
(* coordinate.                                                             *)
(***************************************************************************)
GetStart ==
    /\ Constructed
    /\ Called("get_start", None, Result(Self, get_start(Self), NoErr), None)

GetEnd ==
    /\ Constructed
    /\ Called("get_end", None, Result(Self, get_end(Self), NoErr), None)

GetRobotPosition ==
    /\ Constructed
    /\ Called("get_robot_position", None,
              Result(Self, get_robot_position(Self), NoErr), None)

\* board_cells is called: the caller holds the generator it returns.
BoardCells ==
    /\ Constructed
    /\ Returned("board_cells", None, Result(Self, board_cells(Self), NoErr), None)
    /\ cells' = board_cells(Self)

\* The caller asks the generator it holds for the next item.
NextCell ==
    /\ cells # None
    /\ \E r \in {board_cells_next(Self, cells)} :
          /\ Returned("next", None, Result(Self, r.ret, r.err), None)
          /\ cells' = r.gen

NextFrame ==
    \/ MakeMove
    \/ ResetRobot
    \/ SetObstacle
    \/ RemoveObstacle
    \/ CheckCellForObstacleAt
    \/ GetRobotEnv
    \/ GetStart
    \/ GetEnd
    \/ GetRobotPosition
    \/ BoardCells
    \/ NextCell

\* The boards of FrameSpec: every board of Init of side 2 or less, and the
\* larger ones that have their start in the first cell.
InitFrame == Init /\ (size <= 2 \/ start = <<0, 0>>)

FrameSpec == InitFrame /\ [][NextFrame]_vars

(***************************************************************************)
(* A generator of board_cells drawn from while the Board is edited and     *)
(* reloaded.                                                               *)
(***************************************************************************)
\* The boards of CellsSpec: start in the first cell, end in the last one.
InitCells == Init /\ start = <<0, 0>> /\ end = <<size - 1, size - 1>>

NextCells ==
    \/ BoardCells
    \/ NextCell
    \/ SetObstacle
    \/ RemoveObstacle
    \/ LoadFromFile

CellsSpec == InitCells /\ [][NextCells]_vars

(***************************************************************************)
(* Construction and reload from every token stream.                        *)
(***************************************************************************)
\* Every sequence of at most n*n keywords.
Streams(n) == UNION {[1..k -> BoardKeywords] : k \in 0..(n * n)}

\* The board every reload of LoadSpec starts from: start in the first cell,
\* end in the last one, no obstacle.
PlainBoard(n) ==
    board_init(n, Layout(CellWords(n, <<0, 0>>, <<n - 1, n - 1>>, {}), n, 0)).self

\* A file of blanks and newlines only.
Blank == <<" ", "\n", "\t", "\n">>

\* The files of LoadSpec: every stream laid out in rows, and the blank file.
LoadSources(n) == {Layout(words, n, 0) : words \in Streams(n)} \cup {Blank}

\* Either Board(n, source) is about to be called, or load_from_file(source)
\* on a Board that exists.
InitLoad ==
    \E n \in 1..MaxSize :
        \E source \in LoadSources(n) :
            \E self \in {[size |-> n, board |-> <<>>, start |-> None,
                          end |-> None, robot_position |-> None]}
                        \cup (IF n >= 2 THEN {PlainBoard(n)} ELSE {}) :
                /\ size = self.size
                /\ board = self.board
                /\ start = self.start
                /\ end = self.end
                /\ robot_position = self.robot_position
                /\ op = "call"
                /\ arg = source
                /\ ret = None
                /\ err = NoErr
                /\ pre = None
                /\ NoScreen

Construct ==
    /\ op = "call"
    /\ ~Constructed
    /\ \E r \in {board_init(size, arg)} : Called("__init__", arg, r, None)

Reload ==
    /\ op = "call"
    /\ Constructed
    /\ \E r \in {load_from_file(Self, arg)} : Called("load_from_file", arg, r, None)

NextLoad ==
    \/ Construct
    \/ Reload

LoadSpec == InitLoad /\ [][NextLoad]_vars

(***************************************************************************)
(* Construction and reload from streams that go on after the last cell.    *)
(***************************************************************************)
\* The streams of exactly n*n keywords, with the obstacles of the boards
\* explored.
FullStreams(n) ==
    {words \in [1..(n * n) -> BoardKeywords] :
        Cardinality({k \in 1..(n * n) : words[k] = "1"}) <= ObstacleCap(n)}

\* What a file holds after its n*n-th token.
Surplus == {<<>>, <<"START">>, <<"1", "END", "START">>}

\* The files of SurplusSpec: n*n tokens in rows, then the surplus in a row of
\* its own.
SurplusSources(n) ==
    {Layout(words \o extra, n, 0) : words \in FullStreams(n), extra \in Surplus}

InitSurplus ==
    \E n \in 1..MaxSize :
        \E source \in SurplusSources(n) :
            \E self \in {[size |-> n, board |-> <<>>, start |-> None,
                          end |-> None, robot_position |-> None]}
                        \cup (IF n >= 2 THEN {PlainBoard(n)} ELSE {}) :
                /\ size = self.size
                /\ board = self.board
                /\ start = self.start
                /\ end = self.end
                /\ robot_position = self.robot_position
                /\ op = "call"
                /\ arg = source
                /\ ret = None
                /\ err = NoErr
                /\ pre = None
                /\ NoScreen

SurplusSpec == InitSurplus /\ [][NextLoad]_vars

(***************************************************************************)
(* tokenize called on every short text.                                    *)
(***************************************************************************)
\* Longest text that is explored.
MaxLen == 4

Texts == UNION {[1..k -> Chars] : k \in 0..MaxLen}

\* The keyword lists tokenize is called with.
KeywordSets == {{"A", "0"}, {"a", "0"}, {"A", "a"}, {"A", "A0"}}

\* tokenize(text, keywords, match_case) is about to be called.
InitToken ==
    \E text \in Texts :
        \E keywords \in KeywordSets :
            \E match_case \in BOOLEAN :
                /\ size = 0
                /\ board = <<>>
                /\ start = None
                /\ end = None
                /\ robot_position = None
                /\ op = "call tokenize"
                /\ arg = [text |-> text, keywords |-> keywords,
                          match_case |-> match_case]
                /\ ret = None
                /\ err = NoErr
                /\ pre = None
                /\ NoScreen

Tokenize ==
    /\ op = "call tokenize"
    /\ \E r \in {tokenize_text(arg.text, arg.keywords, arg.match_case)} :
          /\ op' = "tokenize"
          /\ ret' = r.tokens
          /\ err' = r.err
          /\ UNCHANGED <<size, board, start, end, robot_position, arg, pre,
                       screen, grid, path, cells>>

TokenSpec == InitToken /\ [][Tokenize]_vars

(***************************************************************************)
(* grid.py: the Grid widget, without its drawing.                          *)
(***************************************************************************)
\* Grid.__init__: the Grid as __init__ leaves it, _init_tile_buttons being
\* scheduled and not yet run; with_robot is the property of that name.
Grid_init(with_robot) ==
    [obstacles |-> <<>>, start |-> <<0, 0>>, end |-> <<0, 0>>,
     robot_position |-> None, with_robot |-> with_robot]

\* Grid._init_tile_buttons, the second section of __init__, which the clock
\* runs.
Grid__init_tile_buttons(g) ==
    IF g.with_robot
    THEN [g EXCEPT !.robot_position = <<0, 0>>]
    ELSE g

\* robot_position[0] = ... while robot_position is still None.
NoRobotPosition ==
    Raise("TypeError", <<"'NoneType' object does not support item assignment">>)

\* `v in l` of a Python list.
InList(v, l) == \E k \in 1..Len(l) : l[k] = v

\* l.remove(v): the first v leaves the list.
ListRemove(l, v) ==
    LET k == CHOOSE i \in 1..Len(l) : l[i] = v /\ \A j \in 1..(i - 1) : l[j] # v
    IN  SubSeq(l, 1, k - 1) \o SubSeq(l, k + 1, Len(l))

Grid_clear(g) == [g EXCEPT !.obstacles = <<>>]

Grid_set_obstacle(g, x_pos, y_pos) ==
    LET obstacle == <<x_pos, y_pos>>
        start_check == (obstacle[1] # g.start[1]) \/ (obstacle[2] # g.start[2])
        end_check == (obstacle[1] # g.end[1]) \/ (obstacle[2] # g.end[2])
    IN  IF ~InList(obstacle, g.obstacles) /\ start_check /\ end_check
        THEN [g EXCEPT !.obstacles = Append(g.obstacles, obstacle)]
        ELSE g

Grid_remove_obstacle(g, x_pos, y_pos) ==
    LET obstacle == <<x_pos, y_pos>>
    IN  IF InList(obstacle, g.obstacles)
        THEN [g EXCEPT !.obstacles = ListRemove(g.obstacles, obstacle)]
        ELSE g

Grid_set_start(g, x_pos, y_pos) == [g EXCEPT !.start = <<x_pos, y_pos>>]

Grid_set_end(g, x_pos, y_pos) == [g EXCEPT !.end = <<x_pos, y_pos>>]

Grid_set_robot(g, pos) ==
    IF g.with_robot /\ g.robot_position = None
    THEN Result(g, None, NoRobotPosition)
    ELSE IF g.with_robot
    THEN Result([g EXCEPT !.robot_position = <<pos[1], pos[2]>>], None, NoErr)
    ELSE Result(g, None,
                Raise("RuntimeError", <<"Grid.set_robot called on grid without robot">>))

Grid_reset_robot(g) ==
    IF g.with_robot /\ g.robot_position = None
    THEN Result(g, None, NoRobotPosition)
    ELSE IF g.with_robot
    THEN Result([g EXCEPT !.robot_position = <<g.start[1], g.start[2]>>], None, NoErr)
    ELSE Result(g, None,
                Raise("RuntimeError", <<"Grid.reset_robot called on grid without robot">>))

(***************************************************************************)
(* path.py: the example robot program.                                     *)
(***************************************************************************)
\* What the file path.py holds when it is executed: the example program
\* ("path.py"), another program of the user ("other"), or code that does not
\* compile ("broken"), of which nothing is executed.
Codes == {"path.py", "other", "broken"}

\* The module `path` as executing `code` leaves it.  bound tells whether the
\* name `path` of testcode.py is bound, which the import at the top of
\* testcode.py decides; cached, whether sys.modules holds the module.
Module(code, bound, cached) ==
    [code |-> code, forward |-> 0, environment |-> None, bound |-> bound,
     cached |-> cached]

\* What a call of the program does: it returns a value, raises, or never
\* returns.
Returns(value, forward) == [kind |-> "return", value |-> value, forward |-> forward]
Raises(error) == [kind |-> "raise", error |-> error]
Hangs == [kind |-> "hang"]

\* None, where the code holds either None or a Move.
NoMove == "None"

RECURSIVE GetMoveLoop(_, _, _, _)
\* The loop of get_move at `direction`, the directions in `tried` having been
\* tested in vain.  The loop changes nothing but `direction`, so that it never
\* ends once it comes back to a direction it has tested.
GetMoveLoop(environment, forward, direction, tried) ==
    IF direction = 0 /\ environment.front THEN Returns("FORWARD", direction)
    ELSE IF direction = 1 /\ environment.right THEN Returns("RIGHT", direction)
    ELSE IF direction = 2 /\ environment.back THEN Returns("BACKWARD", direction)
    ELSE IF direction = 3 /\ environment.left THEN Returns("LEFT", direction)
    ELSE IF direction \in tried THEN Hangs
    ELSE GetMoveLoop(environment, forward, (direction + 1) % 4,
                     tried \cup {direction})

\* get_move, were the search to start at the direction faced.
get_move_from_forward(environment, forward) ==
    GetMoveLoop(environment, forward, forward % 4, {})

get_move(environment, forward) ==
    GetMoveLoop(environment, forward, (forward - 1) % 4, {})

(***************************************************************************)
(* testcode.py and editboard.py: the two screens that show a Board.        *)
(* An application is the record t of a screen, its game_board, its grid    *)
(* and the module path.                                                    *)
(***************************************************************************)
\* The event Clock.schedule_interval(self.update, ...) returns.
ClockEvent == <<"update">>

RECURSIVE SetObstacles(_, _, _)
\* The loop over board_cells of _init_grid and of EditBoard._init: gen is the
\* generator the loop draws from, and each turn asks it for one item.
SetObstacles(g, self, gen) ==
    LET item == board_cells_next(self, gen)
    IN  IF item.err # NoErr
        THEN g
        ELSE SetObstacles(IF item.ret[1] = 1
                          THEN Grid_set_obstacle(g, item.ret[2], item.ret[3])
                          ELSE g,
                          self, item.gen)

\* TestCode._init_grid
init_grid(t) ==
    LET shown == SetObstacles(Grid_clear(t.grid), t.board, board_cells(t.board))
        s == get_start(t.board)
        e == get_end(t.board)
    IN  [t EXCEPT !.screen.start = s,
                  !.screen.end = e,
                  !.grid = Grid_set_end(Grid_set_start(shown, s[1], s[2]), e[1], e[2])]

\* The calls of Clock.schedule_once that the two constructors of a screen
\* make, in the order they are made: the Grid is built inside the screen's
\* super().__init__, before the screen schedules its own _init.
ScheduledOnce == <<"_init_tile_buttons", "_init">>

\* A screen that has no Board yet: TestCode has no attribute game_board and
\* EditBoard has None in it until _init has built the Board.
NoBoard ==
    [size |-> 0, board |-> <<>>, start |-> None, end |-> None,
     robot_position |-> None]

\* self.game_board.<name> on a TestCode that has no attribute game_board.
NoGameBoard ==
    Raise("AttributeError", <<"'TestCode' object has no attribute 'game_board'">>)

\* self.game_board.<name> on an EditBoard whose game_board is None.
NoneHasNo(name) ==
    Raise("AttributeError",
          <<"'NoneType' object has no attribute '" \o name \o "'">>)

\* TestCode.__init__ with num_spaces = n, _init being scheduled and not yet
\* run; the import at the top of testcode.py has found `code`.  grid is the
\* widget ids.grid, which self.grid refers to once _init has run.
TestCode_init(n, code) ==
    [board |-> NoBoard,
     screen |-> [kind |-> "TestCode", num_lines |-> n - 1, num_spaces |-> n,
                 start |-> None, end |-> None,
                 message |-> "", path_update |-> None,
                 path_loaded |-> (code # "broken"),
                 scheduled |-> ScheduledOnce],
     grid |-> Grid_init(TRUE),
     path |-> Module(code, code # "broken", code # "broken")]

\* TestCode._init, the second stage of the initialization, which the clock
\* runs on the board file source_file.
TestCode__init(t, source_file) ==
    LET r == board_init(t.screen.num_spaces, source_file)
    IN  IF r.err # NoErr
        THEN Result(t, None, r.err)
        ELSE Result(init_grid([t EXCEPT !.board = r.self]), None, NoErr)

\* EditBoard.__init__ with num_spaces = n, _init being scheduled and not yet
\* run.
EditBoard_init(n) ==
    [board |-> NoBoard,
     screen |-> [kind |-> "EditBoard", num_lines |-> n - 1, num_spaces |-> n,
                 start |-> <<0, 0>>, end |-> <<0, 0>>,
                 scheduled |-> ScheduledOnce],
     grid |-> Grid_init(FALSE),
     path |-> None]

\* EditBoard._init, the second stage of the initialization, which the clock
\* runs on the board file source_file.
EditBoard__init(t, source_file) ==
    LET r == board_init(t.screen.num_spaces, source_file)
        shown == SetObstacles(t.grid, r.self, board_cells(r.self))
        s == get_start(r.self)
        e == get_end(r.self)
    IN  IF r.err # NoErr
        THEN Result(t, None, r.err)
        ELSE Result([t EXCEPT !.board = r.self,
                              !.screen.start = s,
                              !.screen.end = e,
                              !.grid = Grid_set_end(Grid_set_start(shown, s[1], s[2]),
                                                    e[1], e[2])],
                    None, NoErr)

\* EditBoard.tile_click
tile_click(t, x_coord, y_flipped) ==
    LET y_coord == t.screen.num_lines - y_flipped
        start_check == (t.screen.start[1] # x_coord) \/ (t.screen.start[2] # y_coord)
        end_check == (t.screen.end[1] # x_coord) \/ (t.screen.end[2] # y_coord)
        check == check_cell_for_obstacle(t.board, x_coord, y_coord)
    IN  IF t.board = NoBoard
        THEN Result(t, None, NoneHasNo("check_cell_for_obstacle"))
        ELSE IF check.err # NoErr
        THEN Result(t, None, check.err)
        ELSE IF check.ret
        THEN LET r == remove_obstacle(t.board, x_coord, y_coord)
             IN  IF r.err # NoErr
                 THEN Result(t, None, r.err)
                 ELSE Result([t EXCEPT !.board = r.self,
                                       !.grid = Grid_remove_obstacle(t.grid, x_coord, y_coord)],
                             None, NoErr)
        ELSE IF start_check /\ end_check
        THEN LET r == set_obstacle(t.board, x_coord, y_coord)
             IN  IF r.err # NoErr
                 THEN Result(t, None, r.err)
                 ELSE Result([t EXCEPT !.board = r.self,
                                       !.grid = Grid_set_obstacle(t.grid, x_coord, y_coord)],
                             None, NoErr)
        ELSE Result(t, None, NoErr)

\* EditBoard.save_board; writable tells whether the board file can be opened.
save_board(t, writable) ==
    IF t.board = NoBoard
    THEN Result(t, None, NoneHasNo("save_to_file"))
    ELSE LET r == save_to_file(t.board, writable)
         IN  Result([t EXCEPT !.board = r.self], None, r.err)

\* check_path_module
check_path_module(t) == t.path.cached

\* load_path_code; `code` is what the file path.py holds.  importlib.reload
\* executes the file; `import path` executes it only when sys.modules does not
\* hold the module, and returns the module it holds otherwise.
load_path_code(t, code) ==
    IF t.screen.path_loaded
    THEN IF ~t.path.cached \/ code = "broken"
         THEN [t EXCEPT !.screen.message = "Can't load path code.",
                        !.screen.path_loaded = FALSE]
         ELSE [t EXCEPT !.path = Module(code, t.path.bound, TRUE)]
    ELSE IF t.path.cached
         THEN [t EXCEPT !.screen.path_loaded = check_path_module(t)]
         ELSE IF code = "broken"
         THEN [t EXCEPT !.screen.message = "Can't load path code.",
                        !.screen.path_loaded = FALSE]
         ELSE LET imported == [t EXCEPT !.path = Module(code, t.path.bound, TRUE)]
              IN  [imported EXCEPT !.screen.path_loaded = check_path_module(imported)]

reset_board(t) == [t EXCEPT !.board = reset_robot(t.board).self]

\* pause, were the event left in path_update.
pause_keeping_event(t) == t

pause(t) ==
    IF Truthy(t.screen.path_update)
    THEN [t EXCEPT !.screen.path_update = None]
    ELSE t

reset(t, code) ==
    LET loaded == load_path_code(
                      [reset_board(pause(t)) EXCEPT !.screen.message = ""], code)
        shown == Grid_reset_robot(loaded.grid)
    IN  IF t.board = NoBoard
        THEN Result(pause(t), None, NoGameBoard)
        ELSE Result([loaded EXCEPT !.grid = shown.self], None, shown.err)

\* start_path, without the reset of a robot that is on the end cell.
start_path_not_resetting(t, code) ==
    IF ~Truthy(t.screen.path_update)
    THEN Result([t EXCEPT !.screen.path_update = ClockEvent], None, NoErr)
    ELSE Result(t, None, NoErr)

start_path(t, code) ==
    LET again == IF get_robot_position(t.board) = get_end(t.board)
                 THEN reset(t, code)
                 ELSE Result(t, None, NoErr)
    IN  IF t.board = NoBoard
        THEN Result(t, None, NoGameBoard)
        ELSE IF again.err # NoErr
        THEN again
        ELSE IF ~Truthy(again.self.screen.path_update)
        THEN Result([again.self EXCEPT !.screen.path_update = ClockEvent], None, NoErr)
        ELSE again

on_pre_enter(t, source_file, code) ==
    LET r == load_from_file(t.board, source_file)
    IN  IF t.board = NoBoard
        THEN Result(t, None, NoGameBoard)
        ELSE IF r.err # NoErr
        THEN Result([t EXCEPT !.board = r.self], None, r.err)
        ELSE reset(init_grid([t EXCEPT !.board = r.self]), code)

\* The calls of another program of the user: it returns a Move, returns
\* something that is no Move, raises a SyntaxError (of line 1) or raises
\* something else.
Outcomes ==
    {Returns(m, 0) : m \in Move}
        \cup {Returns(NoMove, 0), Raises(Raise("SyntaxError", 1)),
              Raises(Raise("Exception", <<>>))}

\* Lines 236-246 of update: the move is made, or is refused as no Move.
ApplyMove(t, move) ==
    IF move \in Move
    THEN LET made == make_move(t.board, move)
             shown == Grid_set_robot(t.grid, made.ret)
             moved == [t EXCEPT !.board = made.self, !.grid = shown.self]
         IN  IF shown.err # NoErr
             THEN Result(moved, None, shown.err)
             ELSE IF get_robot_position(moved.board) = get_end(moved.board)
             THEN Result(pause(moved), None, NoErr)
             ELSE Result(moved, None, NoErr)
    ELSE Result(pause([t EXCEPT !.screen.message = "Error in code"]), None, NoErr)

\* Lines 225-234 of update: what the two except clauses do.
Caught(t, error) ==
    IF error.type = "SyntaxError"
    THEN Result(pause([t EXCEPT !.screen.message =
                          "Error on line " \o ToString(error.msg)]), None, NoErr)
    ELSE Result(pause([t EXCEPT !.screen.message = "Error in code"]), None, NoErr)

\* What is left in place of a result by a call that does not return.
NeverReturns == <<"does not return">>

\* update; `outcome` is what get_move of another program of the user does.
\* Robot.environment is assigned before get_move is called, whatever the
\* program.
update(t, outcome) ==
    LET robot_env == get_robot_env(t.board).ret
        seen == [t EXCEPT !.path.environment = robot_env]
    IN  IF t.board = NoBoard
        THEN Result(t, None, NoGameBoard)
        ELSE IF ~t.screen.path_loaded
        THEN ApplyMove(pause([t EXCEPT !.screen.message = "Path code is not loaded."]),
                       NoMove)
        ELSE IF ~t.path.bound
        THEN Caught(t, Raise("NameError", <<"name 'path' is not defined">>))
        ELSE IF t.path.code = "path.py"
        THEN LET call == get_move(robot_env, t.path.forward)
             IN  IF call.kind = "hang"
                 THEN Result(seen, NeverReturns, NoErr)
                 ELSE ApplyMove([seen EXCEPT !.path.forward = call.forward], call.value)
        ELSE IF outcome.kind = "raise"
        THEN Caught(seen, outcome.error)
        ELSE ApplyMove(seen, outcome.value)

\* What the robot program does when update calls it on t: nothing when update
\* does not reach the call.
ProgramCall(t, outcome) ==
    IF ~t.screen.path_loaded THEN [kind |-> "not called"]
    ELSE IF ~t.path.bound
    THEN Raises(Raise("NameError", <<"name 'path' is not defined">>))
    ELSE IF t.path.code = "path.py"
    THEN get_move(get_robot_env(t.board).ret, t.path.forward)
    ELSE outcome

(***************************************************************************)
(* The TestCode screen: the step cycle.                                    *)
(***************************************************************************)
App == [board |-> Self, screen |-> screen, grid |-> grid, path |-> path]

\* The handler `name(argument)` of a screen ended with result r; before is
\* what it found in robot_position.
Handled(name, argument, r, before) ==
    /\ size' = r.self.board.size
    /\ board' = r.self.board.board
    /\ start' = r.self.board.start
    /\ end' = r.self.board.end
    /\ robot_position' = r.self.board.robot_position
    /\ screen' = r.self.screen
    /\ grid' = r.self.grid
    /\ path' = r.self.path
    /\ UNCHANGED cells
    /\ op' = name
    /\ arg' = argument
    /\ ret' = r.ret
    /\ err' = r.err
    /\ pre' = before

\* The board files the TestCode screen is opened on: the start in the first
\* cell, the end and the obstacles anywhere.
ScreenSources(n) ==
    {Layout(CellWords(n, <<0, 0>>, e, O), n, 0) :
        e \in Cells(n) \ {<<0, 0>>},
        O \in {P \in SUBSET Cells(n) : Cardinality(P) <= ObstacleCap(n)}}

\* The board files TestCode finds when it is entered again: the file of its
\* board, that file with start and end exchanged, and no file.
EnterSources(self) ==
    LET saved == save_data_of(self)
        n == self.size
    IN  {saved, NoFile,
         WithWord(WithWord(saved, n, WordAt(n, self.start), "end"),
                  n, WordAt(n, self.end), "start")}

\* The screen t has just been constructed.
Built(t) ==
    /\ size = t.board.size
    /\ board = t.board.board
    /\ start = t.board.start
    /\ end = t.board.end
    /\ robot_position = t.board.robot_position
    /\ screen = t.screen
    /\ grid = t.grid
    /\ path = t.path
    /\ cells = None
    /\ op = "__init__"
    /\ arg = None
    /\ ret = None
    /\ err = NoErr
    /\ pre = None

InitTest ==
    \E n \in 1..MaxSize :
        \E code \in Codes : Built(TestCode_init(n, code))

\* The clock runs Grid._init_tile_buttons, the first callback scheduled.
InitTileButtons ==
    /\ screen.scheduled # <<>>
    /\ Head(screen.scheduled) = "_init_tile_buttons"
    /\ Handled("_init_tile_buttons", None,
               Result([App EXCEPT !.grid = Grid__init_tile_buttons(grid),
                                  !.screen.scheduled = Tail(@)],
                      None, NoErr),
               robot_position)

\* The clock runs TestCode._init, the second callback scheduled, on a board
\* file of ScreenSources or on no file.
TestInit ==
    /\ screen.scheduled # <<>>
    /\ Head(screen.scheduled) = "_init"
    /\ \E source \in ScreenSources(screen.num_spaces) \cup {NoFile} :
          \E r \in {TestCode__init([App EXCEPT !.screen.scheduled = Tail(@)],
                                   source)} :
              Handled("_init", source, r, robot_position)

\* No call of update is still running: the application has one thread.
Idle == ret # NeverReturns

\* The clock fires the event in path_update.
Update ==
    /\ Idle
    /\ Truthy(screen.path_update)
    /\ \E outcome \in Outcomes :
          \E r \in {update(App, outcome)} :
              Handled("update", ProgramCall(App, outcome), r, robot_position)

StartPath ==
    /\ Idle
    /\ \E code \in Codes :
          \E r \in {start_path(App, code)} :
              Handled("start_path", code, r, robot_position)

Pause ==
    /\ Idle
    /\ Handled("pause", None, Result(pause(App), None, NoErr), robot_position)

Reset ==
    /\ Idle
    /\ \E code \in Codes :
          \E r \in {reset(App, code)} : Handled("reset", code, r, robot_position)

OnPreEnter ==
    /\ Idle
    /\ \E source \in IF Constructed THEN EnterSources(Self) ELSE {NoFile} :
          \E code \in Codes :
              \E r \in {on_pre_enter(App, source, code)} :
                  Handled("on_pre_enter", source, r, robot_position)

NextTest ==
    \/ InitTileButtons
    \/ TestInit
    \/ Update
    \/ StartPath
    \/ Pause
    \/ Reset
    \/ OnPreEnter

TestSpec == InitTest /\ [][NextTest]_vars

(***************************************************************************)
(* The EditBoard screen: clicks on the tiles of the grid.                  *)
(***************************************************************************)
InitEdit == \E n \in 1..MaxSize : Built(EditBoard_init(n))

\* The clock runs EditBoard._init, the second callback scheduled, on a board
\* file of InitSources or on no file.
EditInit ==
    /\ screen.scheduled # <<>>
    /\ Head(screen.scheduled) = "_init"
    /\ \E source \in InitSources(screen.num_spaces) \cup {NoFile} :
          \E r \in {EditBoard__init([App EXCEPT !.screen.scheduled = Tail(@)],
                                    source)} :
              Handled("_init", source, r, robot_position)

\* A tile is released: its coordinates are those of the GridLayout, the row 0
\* being the lowest one for tile_click.  The tiles are there once
\* _init_tile_buttons has made them.
TileClick ==
    /\ "_init_tile_buttons" \notin {screen.scheduled[k] : k \in DOMAIN screen.scheduled}
    /\ \E x_coord \in 0..screen.num_lines, y_coord \in 0..screen.num_lines :
          \E r \in {tile_click(App, x_coord, y_coord)} :
              /\ WithinCap(r.self.board.board)
              /\ Handled("tile_click", <<x_coord, y_coord>>, r, robot_position)

\* save_board, which menu calls: the Board is written to the board file.
SaveBoard ==
    \E writable \in BOOLEAN :
        \E r \in {save_board(App, writable)} :
            Handled("save_board",
                    IF writable /\ Constructed THEN save_data_of(Self) ELSE NoFile,
                    r, robot_position)

NextEdit ==
    \/ InitTileButtons
    \/ EditInit
    \/ TileClick
    \/ SaveBoard

EditSpec == InitEdit /\ [][NextEdit]_vars

(***************************************************************************)
(* What the specification says, stated apart from the code's operators.    *)
(***************************************************************************)
InGrid(c) == (c[1] \in 0..(size - 1)) /\ (c[2] \in 0..(size - 1))

IsObstacle(c) == board[c[2] + 1][c[1] + 1] = 1

\* In the grid and not an obstacle.
Passable(c) == InGrid(c) /\ ~IsObstacle(c)

UnitVector(move) ==
    CASE move = "FORWARD"  -> <<0, 1>>
      [] move = "RIGHT"    -> <<1, 0>>
      [] move = "BACKWARD" -> <<0, -1>>
      [] move = "LEFT"     -> <<-1, 0>>

Clamp(v) == IF v < 0 THEN 0 ELSE IF v > size - 1 THEN size - 1 ELSE v

\* The cell a move from p aims at, each axis clamped into the grid.
Target(p, move) ==
    <<Clamp(p[1] + UnitVector(move)[1]), Clamp(p[2] + UnitVector(move)[2])>>

\* How many of the words are w.
Count(words, w) == Cardinality({k \in 1..Len(words) : words[k] = w})

\* The cell of the last w among the words.
LastCellOf(words, w) ==
    LET k == CHOOSE i \in 1..Len(words) :
                 /\ words[i] = w
                 /\ \A j \in (i + 1)..Len(words) : words[j] # w
    IN  <<(k - 1) % size, (k - 1) \div size>>

\* The words of a text, letters in upper case: the tokens a text of legal
\* words is read as.
UpperWords(text) == [k \in 1..Len(WordsOf(text)) |-> Upper(WordsOf(text)[k])]

\* The letters and digits among Chars; a run is a maximal sequence of them.
LetterOrDigit == {"A", "a", "0"}

\* The positions of the text where a run starts.
RunStarts(text) ==
    {i \in 1..Len(text) :
        text[i] \in LetterOrDigit /\ (i = 1 \/ text[i - 1] \notin LetterOrDigit)}

\* The run that starts at i, its letters in upper case unless case matters.
RunAt(text, i, match_case) ==
    Join([k \in 1..(RunEnd(text, i, LetterOrDigit) - i) |->
             IF ~match_case /\ text[i + k - 1] = "a" THEN "A" ELSE text[i + k - 1]])

\* 1 plus the number of newlines before position i.
LineOf(text, i) == 1 + Cardinality({j \in 1..(i - 1) : text[j] = "\n"})

\* The position where the k-th run starts.
KthStart(text, k) ==
    CHOOSE i \in RunStarts(text) :
        Cardinality({j \in RunStarts(text) : j <= i}) = k

\* One token for each run, in the order of the text.
RunTokens(text, match_case) ==
    [k \in 1..Cardinality(RunStarts(text)) |->
        [value |-> RunAt(text, KthStart(text, k), match_case),
         line |-> LineOf(text, KthStart(text, k))]]

\* The positions of the characters that are neither letters, digits, blanks,
\* tabs nor newlines, and of the runs that are not keywords.
Offending(text, keywords, match_case) ==
    {i \in 1..Len(text) : text[i] \notin LetterOrDigit \cup {" ", "\t", "\n"}}
        \cup {i \in RunStarts(text) : RunAt(text, i, match_case) \notin keywords}

Least(S) == CHOOSE i \in S : \A j \in S : i <= j

(***************************************************************************)
(* C1                                                                      *)
(***************************************************************************)
C1_StartEndClear ==
    Constructed =>
        /\ check_cell_for_obstacle(Self, start[1], start[2]).ret = FALSE
        /\ check_cell_for_obstacle(Self, end[1], end[2]).ret = FALSE

C1_RefusedAtStartEnd ==
    (op' \in {"set_obstacle", "remove_obstacle"} /\ arg' \in {start, end})
        => /\ err'.type = "RuntimeError"
           /\ UNCHANGED <<size, board, start, end, robot_position>>

\* C1: through construction, reloads and every set_obstacle / remove_obstacle
\* with coordinates in the grid, the start cell and the end cell are never
\* obstacles, and a set_obstacle or remove_obstacle aimed at the start or the
\* end cell raises an error and changes neither the cells, nor start, end or
\* robot_position.
C1_StartEndProtected == []C1_StartEndClear /\ [][C1_RefusedAtStartEnd]_vars

\* A set_obstacle on the end cell has just been refused, on a board that
\* holds an obstacle elsewhere.
C1_Witness ==
    /\ op = "set_obstacle"
    /\ arg = end
    /\ err.type = "RuntimeError"
    /\ Obstacles(board) # {}

(***************************************************************************)
(* C2                                                                      *)
(***************************************************************************)
\* C2: in every state reached by make_move, reset_robot, set_obstacle,
\* remove_obstacle and load_from_file, the cell at robot_position is not an
\* obstacle.
C2_RobotNeverOnObstacle == Constructed => ~IsObstacle(robot_position)

(***************************************************************************)
(* C3                                                                      *)
(***************************************************************************)
\* C3: both coordinates of robot_position, and of the position make_move
\* returns, lie in 0 .. size - 1.
C3_PositionInGrid ==
    Constructed =>
        /\ InGrid(robot_position)
        /\ (op = "make_move" => InGrid(ret))

\* A move off the grid has just been clamped back onto the robot's cell.
C3_Witness ==
    /\ op = "make_move"
    /\ arg = "LEFT"
    /\ pre[1] = 0
    /\ ret = pre

(***************************************************************************)
(* C4                                                                      *)
(***************************************************************************)
\* C4: make_move(m) aims at robot_position + vector(m), FORWARD = (0, +1),
\* RIGHT = (+1, 0), BACKWARD = (0, -1), LEFT = (-1, 0), each axis clamped
\* into 0 .. size - 1; robot_position becomes that cell if and only if it is
\* not an obstacle and is unchanged otherwise; the call returns the
\* resulting robot_position and raises nothing.
C4_MakeMove ==
    op = "make_move" =>
        /\ err = NoErr
        /\ robot_position =
              IF IsObstacle(Target(pre, arg)) THEN pre ELSE Target(pre, arg)
        /\ ret = robot_position

\* A move to the right has just taken the robot one cell to the right.
C4_Witness ==
    /\ op = "make_move"
    /\ arg = "RIGHT"
    /\ robot_position = <<pre[1] + 1, pre[2]>>

(***************************************************************************)
(* C5                                                                      *)
(***************************************************************************)
C5_Flags ==
    LET x == robot_position[1]
        y == robot_position[2]
    IN  [front |-> Passable(<<x, y + 1>>), right |-> Passable(<<x + 1, y>>),
         back |-> Passable(<<x, y - 1>>), left |-> Passable(<<x - 1, y>>)]

C5_EnvOfEveryState == Constructed => get_robot_env(Self).ret = C5_Flags

C5_EnvCall ==
    op' = "get_robot_env"
        => /\ ret' = C5_Flags
           /\ err' = NoErr
           /\ UNCHANGED <<size, board, start, end, robot_position>>

\* C5: for every robot position and every obstacle layout, get_robot_env
\* returns front / right / back / left, each true if and only if the cell at
\* (x, y+1) / (x+1, y) / (x, y-1) / (x-1, y) is in the grid and not an
\* obstacle, and the call changes nothing of the board.
C5_RobotEnv == []C5_EnvOfEveryState /\ [][C5_EnvCall]_vars

\* get_robot_env has just returned, with an obstacle in front of the robot
\* and a free cell at its right.
C5_Witness ==
    /\ op = "get_robot_env"
    /\ InGrid(<<robot_position[1], robot_position[2] + 1>>)
    /\ ~ret.front
    /\ ret.right

(***************************************************************************)
(* C6                                                                      *)
(***************************************************************************)
\* C6: when make_move(m) has left robot_position unchanged, the target being
\* an obstacle or the robot's own cell after clamping, a further
\* make_move(m) leaves it unchanged again and returns the same position.
C6_BlockedMoveRepeats ==
    [][(/\ op = "make_move"
        /\ robot_position = pre
        /\ op' = "make_move"
        /\ arg' = arg)
          => (robot_position' = robot_position /\ ret' = ret)]_vars

\* make_move has just left the robot in place in front of an obstacle.
C6_Witness ==
    /\ op = "make_move"
    /\ robot_position = pre
    /\ Target(pre, arg) # pre
    /\ IsObstacle(Target(pre, arg))

(***************************************************************************)
(* C7                                                                      *)
(***************************************************************************)
\* C7: reset_robot raises nothing, and get_robot_position() equals
\* get_start() right after it.
C7_ResetRobot ==
    op = "reset_robot" =>
        /\ err = NoErr
        /\ get_robot_position(Self) = get_start(Self)

\* reset_robot has just brought the robot back from a cell in another column
\* and another row than the start.
C7_Witness ==
    /\ op = "reset_robot"
    /\ pre[1] # start[1]
    /\ pre[2] # start[2]

(***************************************************************************)
(* C8                                                                      *)
(***************************************************************************)
\* C8: construction from size * size tokens over 0, 1, START, END that hold
\* exactly one START and exactly one END, wherever they stand, succeeds, and
\* get_start() differs from get_end().
C8_ValidStreamConstructs ==
    (/\ op = "__init__"
     /\ Len(WordsOf(arg)) = size * size
     /\ Count(WordsOf(arg), "START") = 1
     /\ Count(WordsOf(arg), "END") = 1)
        => /\ err = NoErr
           /\ get_start(Self) # get_end(Self)

\* A Board has just been constructed from a stream that begins with START.
C8_Witness ==
    /\ op = "__init__"
    /\ err = NoErr
    /\ Count(WordsOf(arg), "START") = 1
    /\ Count(WordsOf(arg), "END") = 1
    /\ WordsOf(arg)[1] = "START"
    /\ start = <<0, 0>>

(***************************************************************************)
(* C9                                                                      *)
(***************************************************************************)
\* C9: after a load that succeeded, the cell (x, y) is empty when the token
\* at index y * size + x is 0, START or END and an obstacle when it is 1;
\* start is the cell of the START token and end the cell of the END token
\* (of the last one, should the stream hold several).
C9_CellsFollowTokens ==
    (op \in {"__init__", "load_from_file"} /\ err = NoErr)
        => /\ \A c \in Cells(size) :
                 LET w == WordsOf(arg)[c[2] * size + c[1] + 1]
                 IN  /\ (w \in {"0", "START", "END"}) => ~IsObstacle(c)
                     /\ (w = "1") => IsObstacle(c)
           /\ start = LastCellOf(WordsOf(arg), "START")
           /\ end = LastCellOf(WordsOf(arg), "END")

\* A Board has just been constructed with an obstacle in its second cell
\* and no obstacle in the first cell of its second row.
C9_Witness ==
    /\ op = "__init__"
    /\ err = NoErr
    /\ IsObstacle(<<1, 0>>)
    /\ ~IsObstacle(<<0, 1>>)
    /\ start # <<0, 0>>

(***************************************************************************)
(* C10                                                                     *)
(***************************************************************************)
\* C10: construction or reload from a source of fewer than size * size
\* tokens, the empty and the blank source included, raises the RuntimeError
\* of a malformed file.
C10_TooFewTokens ==
    (/\ op \in {"__init__", "load_from_file"}
     /\ Len(WordsOf(arg)) < size * size)
        => /\ err.type = "RuntimeError"
           /\ err.msg[1] = "File supplied to board does not match dimensions specified"

\* Construction has just failed on a stream one token short that holds a
\* START and an END.
C10_Witness ==
    /\ op = "__init__"
    /\ err.type = "RuntimeError"
    /\ Len(WordsOf(arg)) = size * size - 1
    /\ Count(WordsOf(arg), "START") = 1
    /\ Count(WordsOf(arg), "END") = 1

(***************************************************************************)
(* C11                                                                     *)
(***************************************************************************)
\* The first size * size words of the file read.
FirstWords == SubSeq(WordsOf(arg), 1, size * size)

\* C11: construction or reload from a source whose first size * size tokens
\* hold no START or no END raises the RuntimeError of a malformed file, also
\* when a START or an END stands later in the stream.
C11_NoStartOrNoEnd ==
    (op \in {"__init__", "load_from_file"}) =>
        \A words \in {WordsOf(arg)} :
            (/\ Len(words) >= size * size
             /\ \/ \A k \in 1..(size * size) : words[k] # "START"
                \/ \A k \in 1..(size * size) : words[k] # "END")
                => /\ err.type = "RuntimeError"
                   /\ err.msg[1] = "File supplied to board does not match dimensions specified"

\* A reload has just failed on a stream whose only START is the token after
\* the last cell, the END being among the cells.
C11_Witness ==
    /\ op = "load_from_file"
    /\ err.type = "RuntimeError"
    /\ Count(FirstWords, "START") = 0
    /\ Count(FirstWords, "END") = 1
    /\ Len(WordsOf(arg)) = size * size + 1
    /\ WordsOf(arg)[size * size + 1] = "START"

(***************************************************************************)
(* C12                                                                     *)
(***************************************************************************)
\* C12: a Board is built, by construction or by reload, only from a source
\* whose first size * size tokens hold exactly one START and exactly one END.
C12_ExactlyOneStartOneEnd ==
    (op \in {"__init__", "load_from_file"} /\ err = NoErr)
        => /\ Count(FirstWords, "START") = 1
           /\ Count(FirstWords, "END") = 1

(***************************************************************************)
(* C13                                                                     *)
(***************************************************************************)
\* C13: when the source holds more than size * size legal tokens,
\* construction (and reload) succeeds exactly when it succeeds on the first
\* size * size tokens alone, and cells, start and end are those the first
\* size * size tokens alone give.
C13_SurplusIgnored ==
    (op \in {"__init__", "load_from_file"}) =>
        \A words \in {WordsOf(arg)} :
            (Len(words) > size * size) =>
                \A alone \in {board_init(size,
                                  Layout(SubSeq(words, 1, size * size), size, 0))} :
                    /\ (err = NoErr) <=> (alone.err = NoErr)
                    /\ (err = NoErr) =>
                          /\ board = alone.self.board
                          /\ start = alone.self.start
                          /\ end = alone.self.end

\* A Board has just been constructed from a stream that goes on with 1 END
\* START after its last cell, and its start is not the last cell.
C13_Witness ==
    /\ op = "__init__"
    /\ err = NoErr
    /\ Len(WordsOf(arg)) = size * size + 3
    /\ WordsOf(arg)[size * size + 3] = "START"
    /\ start # <<size - 1, size - 1>>
    /\ Obstacles(board) # {}

(***************************************************************************)
(* C14                                                                     *)
(***************************************************************************)
\* C14: a load_from_file on a Board that exists, when it raises (the file
\* cannot be read, holds an illegal token, too few tokens, no START or no
\* END), leaves the cells, start, end and robot_position as they were.
C14_FailedReloadKeepsBoard ==
    [][(op' = "load_from_file" /\ err' # NoErr)
          => UNCHANGED <<size, board, start, end, robot_position>>]_vars

\* A reload has just failed on an illegal token, on a Board with an obstacle
\* whose robot is off the start.
C14_Witness ==
    /\ op = "load_from_file"
    /\ err.type = "RuntimeError"
    /\ err.msg[1] = "File supplied to board contains illegal token(s) at line "
    /\ Obstacles(board) # {}
    /\ robot_position # start

(***************************************************************************)
(* C15                                                                     *)
(***************************************************************************)
\* C15: after a load_from_file that succeeded on a Board that exists,
\* whatever the Board was before, the cells are those of the new source (a
\* cell is an obstacle exactly when its token, one of the first size * size,
\* is 1), start and end are the cells of its START and END tokens among
\* them, and robot_position is the new start.
C15_ReloadReplacesBoard ==
    (op = "load_from_file" /\ err = NoErr) =>
        \A words \in {SubSeq(UpperWords(arg), 1, size * size)} :
            /\ \A c \in Cells(size) :
                  IsObstacle(c) <=> (words[c[2] * size + c[1] + 1] = "1")
            /\ start = LastCellOf(words, "START")
            /\ end = LastCellOf(words, "END")
            /\ robot_position = start

\* A reload has just succeeded and brought to the new start a robot that
\* stood neither on that cell nor on the new end, on a board with an obstacle.
C15_Witness ==
    /\ op = "load_from_file"
    /\ err = NoErr
    /\ pre # start
    /\ pre # end
    /\ robot_position = start
    /\ Obstacles(board) # {}

(***************************************************************************)
(* C16                                                                     *)
(***************************************************************************)
\* C16: on a source made only of keywords, blanks, tabs and newlines,
\* tokenize raises nothing and returns one token for each keyword, in the
\* order of the source, the line of each being 1 plus the number of newlines
\* before it; blanks, tabs and newlines give no token.
C16_TokensInOrder ==
    (/\ op = "tokenize"
     /\ Offending(arg.text, arg.keywords, arg.match_case) = {})
        => /\ err = NoErr
           /\ ret = RunTokens(arg.text, arg.match_case)

(***************************************************************************)
(* C17                                                                     *)
(***************************************************************************)
\* C17: on a source that holds a character that is neither a letter, a
\* digit, a blank, a tab nor a newline, or a run of letters and digits that
\* is not a keyword, tokenize returns no token and raises the RuntimeError
\* that carries the line (1 plus the number of newlines before it) of the
\* first such item of the source.
C17_IllegalTokenLine ==
    (/\ op = "tokenize"
     /\ Offending(arg.text, arg.keywords, arg.match_case) # {})
        => /\ ret = <<>>
           /\ err = Raise("RuntimeError",
                   <<LineOf(arg.text,
                            Least(Offending(arg.text, arg.keywords, arg.match_case)))>>)

(***************************************************************************)
(* C18                                                                     *)
(***************************************************************************)
\* C18: whether case matters or not, on a source of letters, digits, blanks,
\* tabs and newlines, tokenize emits the runs of letters and digits as tokens
\* (in upper case when case does not matter, unchanged when it does) if and
\* only if each whole run is a keyword, and raises the RuntimeError of an
\* illegal token when a run is not one, be it made of several keywords.
C18_WholeRunIsKeyword ==
    (/\ op = "tokenize"
     /\ \A i \in 1..Len(arg.text) : arg.text[i] \in LetterOrDigit \cup {" ", "\t", "\n"})
        => /\ (err = NoErr) <=>
                 \A i \in RunStarts(arg.text) :
                     RunAt(arg.text, i, arg.match_case) \in arg.keywords
           /\ (err = NoErr) =>
                 [k \in 1..Len(ret) |-> ret[k].value]
                     = [k \in 1..Cardinality(RunStarts(arg.text)) |->
                           RunTokens(arg.text, arg.match_case)[k].value]
           /\ (err # NoErr) => err.type = "RuntimeError"

(***************************************************************************)
(* C19                                                                     *)
(***************************************************************************)
\* C19: the text save_to_file has written for a Board, loaded by
\* load_from_file on a Board of the same size, loads without an error and
\* gives the same cells, the same start and the same end.
C19_SaveLoadRoundTrip ==
    (op = "save_to_file" /\ err = NoErr) =>
        \A r \in {load_from_file(Self, arg)} :
            /\ r.err = NoErr
            /\ r.self.board = board
            /\ r.self.start = start
            /\ r.self.end = end

\* A Board with an obstacle, its start not in the first cell and its robot
\* off the start has just been saved.
C19_Witness ==
    /\ op = "save_to_file"
    /\ err = NoErr
    /\ Obstacles(board) # {}
    /\ start # <<0, 0>>
    /\ robot_position # start

(***************************************************************************)
(* C20                                                                     *)
(***************************************************************************)
\* C20: set_obstacle and remove_obstacle on the start cell raise an error
\* that names "start", on the end cell an error that names "end"; on every
\* other cell of the grid they raise nothing and leave that cell an obstacle
\* (set_obstacle) or empty (remove_obstacle).
C20_ProtectedCellNamed ==
    (op \in {"set_obstacle", "remove_obstacle"}) =>
        IF arg = start
        THEN err.type = "RuntimeError" /\ err.msg[2] = "start"
        ELSE IF arg = end
        THEN err.type = "RuntimeError" /\ err.msg[2] = "end"
        ELSE /\ err = NoErr
             /\ IsObstacle(arg) <=> (op = "set_obstacle")

\* remove_obstacle has just been refused on the end cell, on a board that
\* holds an obstacle.
C20_Witness ==
    /\ op = "remove_obstacle"
    /\ arg = end
    /\ err = Raise("RuntimeError", <<"Tries to remove board obstacle at ", "end">>)
    /\ Obstacles(board) # {}

(***************************************************************************)
(* C21                                                                     *)
(***************************************************************************)
\* C21: set_obstacle, remove_obstacle and check_cell_for_obstacle called with
\* a coordinate outside 0 .. size - 1 raise an IndexError and leave every
\* cell of the board as it was.
C21_OutOfRangeRaises ==
    [][(/\ op' \in {"set_obstacle", "remove_obstacle", "check_cell_for_obstacle"}
        /\ ~InGrid(arg'))
          => (err'.type = "IndexError" /\ board' = board)]_vars

(***************************************************************************)
(* The step cycle of TestCode.                                             *)
(***************************************************************************)
\* The robot program has failed: it has raised, or has returned something
\* that is no Move.
ProgramFailed(call) ==
    \/ call.kind = "raise"
    \/ call.kind = "return" /\ call.value \notin Move

\* C22: when the robot program raises or returns a value that is no Move in an
\* update, update returns without raising, an error message is set, the step
\* cycle is paused and robot_position is what it was before the update.
C22_ProgramFailureCaught ==
    (op = "update" /\ ProgramFailed(arg))
        => /\ err = NoErr
           /\ ret = None
           /\ screen.message \in {"Error in code", "Error on line 1"}
           /\ screen.message = "Error on line 1"
                  <=> (arg.kind = "raise" /\ arg.error.type = "SyntaxError")
           /\ ~Truthy(screen.path_update)
           /\ robot_position = pre

\* An update in which the program has returned None, and which has set the
\* message and cancelled the event, is reached.
C22_Witness ==
    /\ op = "update"
    /\ arg.kind = "return"
    /\ arg.value = NoMove
    /\ screen.message = "Error in code"
    /\ ~Truthy(screen.path_update)

\* C23: the step cycle applies no move while the robot is on the end cell.  No
\* update is scheduled while robot_position is end, so that none runs there;
\* an update that brings the robot to end leaves path_update cancelled;
\* start_path called with the robot on end puts it back on start and schedules
\* the updates; and the Board does not block make_move at end: some Move takes
\* the robot off the end cell again.
C23_NoMoveAtEnd ==
    /\ Truthy(screen.path_update) => robot_position # end
    /\ op = "update" => pre # end
    /\ (op = "update" /\ robot_position = end) => ~Truthy(screen.path_update)
    /\ (Constructed /\ op = "start_path" /\ pre = end)
          => (err = NoErr /\ robot_position = start /\ Truthy(screen.path_update))
    /\ (Constructed /\ robot_position = end)
          => \E m \in Move : make_move(Self, m).self.robot_position # end

\* start_path has been called with the robot on the end cell, where an update
\* had brought it.
C23_Witness ==
    /\ op = "start_path"
    /\ pre = end
    /\ robot_position = start
    /\ Truthy(screen.path_update)

\* C24: an update that runs while the user code is not loaded (path_loaded is
\* False) pauses the step cycle, applies no move to the board and leaves the
\* message "Path code is not loaded." when it returns.
C24_NotLoadedMessage ==
    (op = "update" /\ arg.kind = "not called")
        => /\ ~Truthy(screen.path_update)
           /\ robot_position = pre
           /\ screen.message = "Path code is not loaded."

(***************************************************************************)
(* C25                                                                     *)
(***************************************************************************)
\* What a board file may hold: blanks, newlines and the four keywords in
\* either case.
LegalLexemes == {" ", "\t", "\n", "0", "1", "START", "END", "start", "end"}

\* The places of a text that hold something else.
IllegalPlaces(text) == {k \in 1..Len(text) : text[k] \notin LegalLexemes}

\* The line of the first illegal token of a text that has one: one more than
\* the newlines before it.
IllegalLine(text) ==
    LET first == Least(IllegalPlaces(text))
    IN  1 + Cardinality({j \in 1..(first - 1) : text[j] = "\n"})

\* C25 as the specification has it: when tokenizing fails in a construction
\* or a reload, the Board raises an error of its own whose content does not
\* carry the line number of the tokenizer's error.
C25_LineNotCarried ==
    (/\ op = "load_from_file"
     /\ arg # NoFile
     /\ IllegalPlaces(arg) # {})
        => /\ err.type = "RuntimeError"
           /\ \A k \in DOMAIN err.msg : err.msg[k] # ToString(IllegalLine(arg))

\* C25, amended: when tokenizing fails on an illegal token in a construction
\* or a reload, the Board raises a RuntimeError of its own (not the
\* tokenizer's), whose message carries the tokenizer's line number: the line of
\* the first illegal token.
C25_LineCarried ==
    (/\ op = "load_from_file"
     /\ arg # NoFile
     /\ IllegalPlaces(arg) # {})
        => /\ err.type = "RuntimeError"
           /\ err.msg # <<ToString(IllegalLine(arg))>>
           /\ err.msg = <<"File supplied to board contains illegal token(s) at line ",
                          ToString(IllegalLine(arg)), "!">>

\* A reload has failed on an illegal token in the last line of the file, which
\* is not the first one.
C25_Witness ==
    /\ op = "load_from_file"
    /\ arg # NoFile
    /\ IllegalPlaces(arg) # {}
    /\ IllegalLine(arg) = size
    /\ size >= 2
    /\ err.type = "RuntimeError"

(***************************************************************************)
(* The example robot program.                                              *)
(***************************************************************************)
\* The directions in the order of the example program, and their Moves.
Directions == 0..3

MoveOf(d) ==
    CASE d = 0 -> "FORWARD"
      [] d = 1 -> "RIGHT"
      [] d = 2 -> "BACKWARD"
      [] d = 3 -> "LEFT"

\* The flag of the environment for the direction d.
Flag(environment, d) ==
    CASE d = 0 -> environment.front
      [] d = 1 -> environment.right
      [] d = 2 -> environment.back
      [] d = 3 -> environment.left

\* The first direction with a true flag in the cyclic order that starts one
\* before the direction faced.
FirstPassable(environment, faced) ==
    LET turns == Least({k \in Directions : Flag(environment, (faced - 1 + k) % 4)})
    IN  (faced - 1 + turns) % 4

\* update is about to call the example program.
CallsExample ==
    /\ op' = "update"
    /\ screen.path_loaded
    /\ path.bound
    /\ path.code = "path.py"

\* C26: get_move of the example program, called in an update with an
\* environment that has a true flag, returns the Move of the first direction
\* with a true flag in the order FORWARD(0), RIGHT(1), BACKWARD(2), LEFT(3)
\* taken cyclically from (forward - 1) mod 4, and leaves that direction in
\* forward; the flag of the returned Move is true, and the move changes
\* robot_position on the board the environment was read from.
C26_FirstPassableDirection ==
    [][(/\ CallsExample
        /\ \E d \in Directions : Flag(path'.environment, d))
          => \A d \in {FirstPassable(path'.environment, path.forward)} :
                /\ arg' = Returns(MoveOf(d), d)
                /\ path'.forward = d
                /\ Flag(path'.environment, d)
                /\ robot_position' = <<robot_position[1] + UnitVector(MoveOf(d))[1],
                                        robot_position[2] + UnitVector(MoveOf(d))[2]>>
                /\ robot_position' # robot_position]_vars

\* The example program has returned BACKWARD, the third or fourth direction it
\* tested, and the robot has moved.
C26_Witness ==
    /\ op = "update"
    /\ path.code = "path.py"
    /\ arg = Returns("BACKWARD", 2)
    /\ path.forward = 2
    /\ robot_position # pre

\* C27: get_move of the example program returns for every environment, the
\* one with four false flags included, so that every update returns.
C27_EveryUpdateReturns ==
    op = "update" => (ret # NeverReturns /\ arg.kind # "hang")

(***************************************************************************)
(* C28                                                                     *)
(***************************************************************************)
\* The direction of a Move in the order front, right, back, left.
DirectionOf(move) == CHOOSE d \in Directions : MoveOf(d) = move

\* C28: after make_move(m) from a cell that is not an obstacle, robot_position
\* has changed if and only if the flag of get_robot_env for m's direction,
\* read on the Board as it was just before the move, is true; and then the new
\* position is the old one plus m's unit vector.
C28_PerceptionMatchesAction ==
    (op = "make_move" /\ ~IsObstacle(pre))
        => \A env \in {get_robot_env([Self EXCEPT !.robot_position = pre]).ret} :
              /\ (robot_position # pre) <=> Flag(env, DirectionOf(arg))
              /\ Flag(env, DirectionOf(arg))
                    => robot_position = <<pre[1] + UnitVector(arg)[1],
                                          pre[2] + UnitVector(arg)[2]>>

\* A move has been refused by an obstacle next to the robot, inside the grid.
C28_Witness ==
    /\ op = "make_move"
    /\ ~IsObstacle(pre)
    /\ robot_position = pre
    /\ InGrid(<<pre[1] + UnitVector(arg)[1], pre[2] + UnitVector(arg)[2]>>)
    /\ IsObstacle(<<pre[1] + UnitVector(arg)[1], pre[2] + UnitVector(arg)[2]>>)

(***************************************************************************)
(* C29                                                                     *)
(***************************************************************************)
\* The cell the coordinates (x, y) of a call index.
IndexedCell(c) ==
    <<IF c[1] < 0 THEN c[1] + size ELSE c[1], IF c[2] < 0 THEN c[2] + size ELSE c[2]>>

\* C29: make_move and reset_robot change nothing but robot_position; a
\* set_obstacle(x, y) or remove_obstacle(x, y) that raises nothing changes
\* nothing but the cell (x, y); get_start, get_end, get_robot_position,
\* get_robot_env, check_cell_for_obstacle and board_cells (the call, and
\* every item drawn from its generator) change nothing.
C29_Frame ==
    [][/\ op' \in {"make_move", "reset_robot"}
            => UNCHANGED <<size, board, start, end>>
       /\ (op' \in {"set_obstacle", "remove_obstacle"} /\ err' = NoErr)
            => /\ UNCHANGED <<size, start, end, robot_position>>
               /\ \A c \in Cells(size) \ {IndexedCell(arg')} :
                     board'[c[2] + 1][c[1] + 1] = board[c[2] + 1][c[1] + 1]
       /\ op' \in {"get_start", "get_end", "get_robot_position", "get_robot_env",
                   "check_cell_for_obstacle", "board_cells", "next"}
            => UNCHANGED <<size, board, start, end, robot_position>>]_vars

\* set_obstacle has put an obstacle on a Board that has another one, while the
\* robot was off the start.
C29_Witness ==
    /\ op = "set_obstacle"
    /\ err = NoErr
    /\ InGrid(arg)
    /\ IsObstacle(arg)
    /\ Cardinality(Obstacles(board)) >= 2
    /\ robot_position # start

(***************************************************************************)
(* C30                                                                     *)
(***************************************************************************)
\* The cells the grid shows as obstacles.
Shown == {grid.obstacles[k] : k \in 1..Len(grid.obstacles)}

\* C30: after EditBoard._init, and after every tile_click that follows, the
\* obstacles of the Grid are exactly the cells of the Board that are obstacles.
C30_GridMirrorsBoard ==
    op \in {"_init", "tile_click"} => Shown = Obstacles(board)

====
